---------------------------- MODULE Spec2Model ----------------------------
(***************************************************************************)
(* Model of the water calibration server                                   *)
(*   src/rpi-water-calibration-server.py  (ZMQ REP server, sampling loop,  *)
(*                                         trapezoidal integration)        *)
(*   src/I2C_SLF3S_1300F.py               (flow-only sensor driver)        *)
(*   src/water_cali.py                    (flow+temperature driver)        *)
(*                                                                         *)
(* Two specifications:                                                     *)
(*   Spec        the server: requests, one measurement session at a time   *)
(*   DriverSpec  a driver object called in every order by a client         *)
(*   FunctionSpec  the decoding, integration and request parsing applied   *)
(*                 once to each input of a bounded set                     *)
(*                                                                         *)
(* Representation of Python values:                                        *)
(*   - a text is a sequence of string fragments, "a" + "b" is <<"a","b">>  *)
(*   - a request message is a sequence of one-character strings            *)
(*   - an Optional is a sequence of length 0 (None) or 1                   *)
(*   - a time is an integer number of milliseconds (1/1000 s)              *)
(*   - a flow rate is the numerator of raw/scale (scale 500 or 120)        *)
(*   - a volume is the numerator of a fraction over VolumeDen              *)
(*   Floating point rounding is not modelled: arithmetic is exact.         *)
(***************************************************************************)
EXTENDS Integers, Sequences, FiniteSets, TLC

VARIABLES
    \* ---- server (start_server / handle_message) ----
    pc,             \* position of the server thread
    inbox,          \* number of requests queued in the REP socket
    outstanding,    \* requests received and not yet replied to
    lastReply,      \* reply sent to the last request received, <<>> if none
    duration,       \* parsed duration of the request being handled (ms)
    response,       \* value handle_message returned
    exc,            \* message of the exception start_server caught
    \* ---- session (perform_water_measurement) ----
    drv,            \* the session's WaterCali object: [bus, measuring]
    now,            \* the wall clock, time.time()
    start_time,
    next_measurement_time,
    flow_data,      \* sequence of <<timestamp, flow>>
    measurement_count,
    result,         \* tuple returned by perform_water_measurement
    spin,           \* loop iterations since the clock last advanced
    \* ---- history of the current session ----
    exitPath,       \* which return statement ended the session
    handlesOpen,    \* bus handles currently open in the process
    opens,          \* SMBus() handles acquired in this session
    closes,         \* bus.close() calls in this session
    issued,         \* kinds of bus transactions issued in this session
    opAfterRelease, \* a bus transaction was issued on a closed handle
    stopCalls,      \* stop_measure invocations in this session
    stopRets,       \* their return values, in order
    reachedLoop,    \* the session entered the sampling loop
    lastRead,       \* how the bus read of the last loop iteration ended
    readFailed,     \* some read_flow of this session's loop failed
    probeRet,       \* what test_i2c returned in this session
    startRet,       \* what start_measure returned in this session
    \* ---- driver client (DriverSpec) ----
    variant,        \* "flow" (I2C_SLF3S_1300F.py) or "flowtemp" (water_cali.py)
    calls,          \* the last calls made on the driver, newest last
    \* ---- function application (FunctionSpec) ----
    fn,             \* the function applied, "none" before
    arg,            \* its input
    out             \* what it returned

vars == <<pc, inbox, outstanding, lastReply, duration, response, exc,
          drv, now, start_time, next_measurement_time, flow_data,
          measurement_count, result, spin, exitPath, handlesOpen, opens,
          closes, issued, opAfterRelease, stopCalls, stopRets, reachedLoop,
          lastRead, readFailed, probeRet, startRet, variant, calls, fn, arg,
          out>>

serverVars == <<pc, inbox, outstanding, lastReply, duration, response, exc>>
sessionVars == <<now, start_time, next_measurement_time, flow_data,
                 measurement_count, result, spin>>
historyVars == <<exitPath, handlesOpen, opens, closes, issued,
                 opAfterRelease, stopCalls, stopRets, reachedLoop, lastRead,
                 readFailed, probeRet, startRet>>
clientVars == <<variant, calls, fn, arg, out>>

----------------------------------------------------------------------------
(* Bounds of the model *)

\* requests that can wait in the socket while the server is busy
MaxQueue == 1
\* largest advance of the clock (ms) between two readings of time.time()
MaxStep == 1
\* loop iterations that fit in one clock unit
MaxSpin == 1
\* longest sample buffer handed to the integration in FunctionSpec
MaxSamples == 3
\* latest timestamp (ms) of a sample of such a buffer
MaxTime == 3
\* characters after the '=' of the requests handed to handle_message in
\* FunctionSpec
MaxTail == 3
\* calls the driver client remembers
MaxCalls == 2

----------------------------------------------------------------------------
(* Python values *)

PyNone == [type |-> "NoneType", s |-> <<>>, n |-> 0]
PyStr(t) == [type |-> "str", s |-> t, n |-> 0]
PyFloat(x) == [type |-> "float", s |-> <<>>, n |-> x]

\* str(v): a str is itself, a number is formatted as decimal text
str(v) ==
    CASE v.type = "str" -> v.s
      [] v.type = "float" -> <<ToString(v.n)>>
      [] OTHER -> <<"None">>


----------------------------------------------------------------------------
(* The I2C bus as the driver sees it *)

\* how one bus transaction ends: acknowledged, OSError errno 121 (no
\* acknowledgment from the address), or any other OSError
Outcomes == {"ok", "nack", "io"}

\* 16-bit words the device puts on the wire
WireValues == {0, 15000, 32767, 32768, 65286}

\* the 3-byte block of I2C_SLF3S_1300F.read_flow: flow word + CRC
FlowBlock(w) == <<w \div 256, w % 256, 0>>

\* the 9-byte block of water_cali.read_flow: flow, temperature, aux words,
\* each followed by a CRC byte
FlowTempBlock(w, t) ==
    <<w \div 256, w % 256, 0, t \div 256, t % 256, 0, 0, 0, 0>>

\* a transaction on a handle that bus.close() has released raises an
\* exception that is no OSError; on an open handle the device decides
BusResult(d, o) == IF d.bus = "closed" THEN "exc" ELSE o

\* WaterCali.__init__: measuring False, the bus opened or left None
NewDriver(opened) ==
    [bus |-> IF opened THEN "open" ELSE "None", measuring |-> FALSE]

\* what a method call yields: the driver afterwards, whether it returned
\* True / a value, the value (an Optional) and the bus transactions issued
Ret(d, ok, val, ops) == [d |-> d, ok |-> ok, val |-> val, ops |-> ops]

----------------------------------------------------------------------------
(* src/I2C_SLF3S_1300F.py: class WaterCali (flow-only variant) *)

soft_reset(d, o) ==
    IF d.bus = "None" THEN Ret(d, FALSE, <<>>, <<>>)
    ELSE IF BusResult(d, o) = "ok"
         THEN Ret([d EXCEPT !.measuring = FALSE], TRUE, <<>>, <<"w_reset">>)
         ELSE Ret(d, FALSE, <<>>, <<"w_reset">>)

\* mutant: the probe running the recovery step on every fault, not only on
\* errno 121
test_i2c_ResetOnAnyFault(d, o1, o2, o3, orst) ==
    IF d.bus = "None" THEN Ret(d, FALSE, <<>>, <<>>)
    ELSE
      LET r1 == BusResult(d, o1)
          r2 == BusResult(d, o2)
          r3 == BusResult(d, o3)
          writes == IF r1 # "ok" THEN <<"w_id1">>
                    ELSE IF r2 # "ok" THEN <<"w_id1", "w_id2">>
                    ELSE <<"w_id1", "w_id2", "r_id">>
          fault == IF r1 # "ok" THEN r1 ELSE IF r2 # "ok" THEN r2 ELSE r3
      IN  IF fault = "ok" THEN Ret(d, TRUE, <<>>, writes)
          ELSE LET rs == soft_reset(d, orst)
               IN  Ret(rs.d, FALSE, <<>>, writes \o rs.ops)

\* o1, o2: the two identifier command writes; o3: the 18-byte read;
\* orst: the reset write of the recovery step
test_i2c(d, o1, o2, o3, orst) ==
    IF d.bus = "None" THEN Ret(d, FALSE, <<>>, <<>>)
    ELSE
      LET r1 == BusResult(d, o1)
          r2 == BusResult(d, o2)
          r3 == BusResult(d, o3)
          writes == IF r1 # "ok" THEN <<"w_id1">>
                    ELSE IF r2 # "ok" THEN <<"w_id1", "w_id2">>
                    ELSE <<"w_id1", "w_id2", "r_id">>
          fault == IF r1 # "ok" THEN r1 ELSE IF r2 # "ok" THEN r2 ELSE r3
      IN  IF fault = "ok" THEN Ret(d, TRUE, <<>>, writes)
          ELSE IF fault = "nack"
               THEN LET rs == soft_reset(d, orst)
                    IN  Ret(rs.d, FALSE, <<>>, writes \o rs.ops)
               ELSE Ret(d, FALSE, <<>>, writes)

\* mutant: start_measure without the early return of lines 161-163
start_measure_NoGuard(d, o) ==
    IF d.bus = "None" THEN Ret(d, FALSE, <<>>, <<>>)
    ELSE IF BusResult(d, o) = "ok"
         THEN Ret([d EXCEPT !.measuring = TRUE], TRUE, <<>>, <<"w_start">>)
         ELSE Ret(d, FALSE, <<>>, <<"w_start">>)

\* mutant: start_measure that sets the flag before it writes the command
start_measure_SetsBeforeWrite(d, o) ==
    IF d.bus = "None" THEN Ret(d, FALSE, <<>>, <<>>)
    ELSE IF d.measuring THEN Ret(d, TRUE, <<>>, <<>>)
    ELSE Ret([d EXCEPT !.measuring = TRUE], BusResult(d, o) = "ok", <<>>,
             <<"w_start">>)

start_measure(d, o) ==
    IF d.bus = "None" THEN Ret(d, FALSE, <<>>, <<>>)
    ELSE IF d.measuring THEN Ret(d, TRUE, <<>>, <<>>)
    ELSE IF BusResult(d, o) = "ok"
         THEN Ret([d EXCEPT !.measuring = TRUE], TRUE, <<>>, <<"w_start">>)
         ELSE Ret(d, FALSE, <<>>, <<"w_start">>)

\* mutant: stop_measure that clears the flag even when the write fails
stop_measure_ClearsOnFailure(d, o) ==
    IF d.bus = "None" THEN Ret(d, FALSE, <<>>, <<>>)
    ELSE IF ~d.measuring THEN Ret(d, TRUE, <<>>, <<>>)
    ELSE Ret([d EXCEPT !.measuring = FALSE], BusResult(d, o) = "ok", <<>>,
             <<"w_stop">>)

\* mutant: stop_measure without the early return of lines 197-199
stop_measure_NoIdleGuard(d, o) ==
    IF d.bus = "None" THEN Ret(d, FALSE, <<>>, <<>>)
    ELSE IF BusResult(d, o) = "ok"
         THEN Ret([d EXCEPT !.measuring = FALSE], TRUE, <<>>, <<"w_stop">>)
         ELSE Ret(d, FALSE, <<>>, <<"w_stop">>)

stop_measure(d, o) ==
    IF d.bus = "None" THEN Ret(d, FALSE, <<>>, <<>>)
    ELSE IF ~d.measuring THEN Ret(d, TRUE, <<>>, <<>>)
    ELSE IF BusResult(d, o) = "ok"
         THEN Ret([d EXCEPT !.measuring = FALSE], TRUE, <<>>, <<"w_stop">>)
         ELSE Ret(d, FALSE, <<>>, <<"w_stop">>)

\* mutant: the 16-bit word taken as it is, without the conversion to signed
flow_raw_Unsigned(data) ==
    data[1] * 256 + data[2]

\* (data[0] << 8) | data[1], then the conversion to signed 16 bit
flow_raw(data) ==
    LET v == data[1] * 256 + data[2]
    IN  IF v > 32767 THEN v - 65536 ELSE v

\* mutant: read_flow that returns 0.0 instead of None when the read fails
read_flow_ZeroOnFailure(d, o, data) ==
    IF d.bus = "None" THEN Ret(d, FALSE, <<>>, <<>>)
    ELSE IF ~d.measuring THEN Ret(d, FALSE, <<>>, <<>>)
    ELSE IF BusResult(d, o) = "ok"
         THEN Ret(d, TRUE, <<flow_raw(data)>>, <<"r_data">>)
         ELSE Ret(d, TRUE, <<0>>, <<"r_data">>)

\* mutant: read_flow without the check of self.measuring (lines 234-236)
read_flow_NoStateCheck(d, o, data) ==
    IF d.bus = "None" THEN Ret(d, FALSE, <<>>, <<>>)
    ELSE IF BusResult(d, o) = "ok"
         THEN Ret(d, TRUE, <<flow_raw(data)>>, <<"r_data">>)
         ELSE Ret(d, FALSE, <<>>, <<"r_data">>)

\* returns None (<<>>) or flow_raw / 500, kept as the numerator flow_raw
read_flow(d, o, data) ==
    IF d.bus = "None" THEN Ret(d, FALSE, <<>>, <<>>)
    ELSE IF ~d.measuring THEN Ret(d, FALSE, <<>>, <<>>)
    ELSE IF BusResult(d, o) = "ok"
         THEN Ret(d, TRUE, <<flow_raw(data)>>, <<"r_data">>)
         ELSE Ret(d, FALSE, <<>>, <<"r_data">>)

\* mutant: close() that stops the measurement and forgets bus.close()
close_NoRelease(d, o) ==
    IF d.measuring THEN stop_measure(d, o) ELSE Ret(d, TRUE, <<>>, <<>>)

\* mutant: close() that releases the bus before it stops the measurement
close_ReleaseFirst(d, o) ==
    LET rel == IF d.bus # "None" THEN [d EXCEPT !.bus = "closed"] ELSE d
        cl == IF d.bus # "None" THEN <<"close">> ELSE <<>>
        st == IF d.measuring THEN stop_measure(rel, o)
              ELSE Ret(rel, TRUE, <<>>, <<>>)
    IN  Ret(st.d, TRUE, <<>>, cl \o st.ops)

\* o: the stop command write, if close() has to send one
close(d, o) ==
    LET st == IF d.measuring THEN stop_measure(d, o)
              ELSE Ret(d, TRUE, <<>>, <<>>)
    IN  IF st.d.bus # "None"
        THEN Ret([st.d EXCEPT !.bus = "closed"], TRUE, <<>>,
                 st.ops \o <<"close">>)
        ELSE Ret(st.d, TRUE, <<>>, st.ops)

----------------------------------------------------------------------------
(* src/water_cali.py: class WaterCali (flow+temperature variant) *)

\* the probe writes the soft-reset command and leaves self.measuring alone
wc_test_i2c(d, o) ==
    IF d.bus = "None" THEN Ret(d, FALSE, <<>>, <<>>)
    ELSE IF BusResult(d, o) = "ok"
         THEN Ret(d, TRUE, <<>>, <<"w_reset">>)
         ELSE Ret(d, FALSE, <<>>, <<"w_reset">>)

wc_start_measure(d, o) ==
    IF d.bus = "None" THEN Ret(d, FALSE, <<>>, <<>>)
    ELSE IF d.measuring THEN Ret(d, TRUE, <<>>, <<>>)
    ELSE IF BusResult(d, o) = "ok"
         THEN Ret([d EXCEPT !.measuring = TRUE], TRUE, <<>>, <<"w_start">>)
         ELSE Ret(d, FALSE, <<>>, <<"w_start">>)

wc_stop_measure(d, o) ==
    IF d.bus = "None" THEN Ret(d, FALSE, <<>>, <<>>)
    ELSE IF ~d.measuring THEN Ret(d, TRUE, <<>>, <<>>)
    ELSE IF BusResult(d, o) = "ok"
         THEN Ret([d EXCEPT !.measuring = FALSE], TRUE, <<>>, <<"w_stop">>)
         ELSE Ret(d, FALSE, <<>>, <<"w_stop">>)

\* (data[3] << 8) | data[4], then the conversion to signed 16 bit
temp_raw(data) ==
    LET v == data[4] * 256 + data[5]
    IN  IF v > 32767 THEN v - 65536 ELSE v

\* returns None (<<>>) or the pair (flow_raw / 120.0, temp_raw / 200.0),
\* kept as the pair of numerators
wc_read_flow(d, o, data) ==
    IF d.bus = "None" THEN Ret(d, FALSE, <<>>, <<>>)
    ELSE IF ~d.measuring THEN Ret(d, FALSE, <<>>, <<>>)
    ELSE IF BusResult(d, o) = "ok"
         THEN Ret(d, TRUE, <<<<flow_raw(data), temp_raw(data)>>>>,
                  <<"r_data">>)
         ELSE Ret(d, FALSE, <<>>, <<"r_data">>)

wc_close(d, o) ==
    LET st == IF d.measuring THEN wc_stop_measure(d, o)
              ELSE Ret(d, TRUE, <<>>, <<>>)
    IN  IF st.d.bus # "None"
        THEN Ret([st.d EXCEPT !.bus = "closed"], TRUE, <<>>,
                 st.ops \o <<"close">>)
        ELSE Ret(st.d, TRUE, <<>>, st.ops)

----------------------------------------------------------------------------
(* src/rpi-water-calibration-server.py: request parsing *)

sample_frequency == 500

\* characters \s matches and str.strip() removes
Whitespace == {" ", "\t", "\n"}

Digits == {"0", "1", "2", "3", "4", "5", "6", "7", "8", "9"}

DigitValue(c) ==
    CASE c = "0" -> 0 [] c = "1" -> 1 [] c = "2" -> 2 [] c = "3" -> 3
      [] c = "4" -> 4 [] c = "5" -> 5 [] c = "6" -> 6 [] c = "7" -> 7
      [] c = "8" -> 8 [] c = "9" -> 9

\* the literal 'water.measure'
Keyword == <<"w", "a", "t", "e", "r", ".", "m", "e", "a", "s", "u", "r", "e">>

RECURSIVE StripLeft(_)
StripLeft(s) ==
    IF s # <<>> /\ Head(s) \in Whitespace THEN StripLeft(Tail(s)) ELSE s

RECURSIVE StripRight(_)
StripRight(s) ==
    IF s # <<>> /\ s[Len(s)] \in Whitespace
    THEN StripRight(SubSeq(s, 1, Len(s) - 1))
    ELSE s

\* str.strip()
strip(s) == StripRight(StripLeft(s))

\* str.startswith(p)
startswith(s, p) == Len(s) >= Len(p) /\ SubSeq(s, 1, Len(p)) = p

\* \s* from position i: the first position that holds no whitespace
RECURSIVE SkipSpace(_, _)
SkipSpace(s, i) ==
    IF i <= Len(s) /\ s[i] \in Whitespace THEN SkipSpace(s, i + 1) ELSE i

\* \d* from position i: the first position that holds no digit
RECURSIVE SkipDigits(_, _)
SkipDigits(s, i) ==
    IF i <= Len(s) /\ s[i] \in Digits THEN SkipDigits(s, i + 1) ELSE i

\* value of a run of digits
RECURSIVE DecimalValue(_)
DecimalValue(ds) ==
    IF ds = <<>> THEN 0
    ELSE 10 * DecimalValue(SubSeq(ds, 1, Len(ds) - 1))
         + DigitValue(ds[Len(ds)])

\* float() of the text \d+ or \d+.\d+, in milliseconds: the integer part
\* times 1000 plus the first three decimals (finer decimals are below the
\* resolution of the model's clock)
float(whole, frac) ==
    LET f3 == SubSeq(frac \o <<"0", "0", "0">>, 1, 3)
    IN  DecimalValue(whole) * 1000 + DecimalValue(f3)

\* re.match(r'water\.measure\s*=\s*(\d+(?:\.\d+)?)', message.strip()):
\* None (<<>>) or the duration; the pattern is anchored at the start only
parse_measure_command(msg) ==
    LET m == strip(msg)
    IN  IF ~startswith(m, Keyword) THEN <<>>
        ELSE
          LET eq == SkipSpace(m, Len(Keyword) + 1)
          IN  IF eq > Len(m) \/ m[eq] # "=" THEN <<>>
              ELSE
                LET d0 == SkipSpace(m, eq + 1)
                    d1 == SkipDigits(m, d0)
                    f1 == SkipDigits(m, d1 + 1)
                    hasFrac == d1 <= Len(m) /\ m[d1] = "." /\ f1 > d1 + 1
                IN  IF d1 = d0 THEN <<>>
                    ELSE <<float(SubSeq(m, d0, d1 - 1),
                                 IF hasFrac THEN SubSeq(m, d1 + 1, f1 - 1)
                                 ELSE <<>>)>>

\* the requests clients send
Messages ==
    { Keyword \o <<" ", "=", " ", "0", ".", "0", "0", "6", "\n">>,
      Keyword \o <<" ", "=", " ", "0">>,
      Keyword \o <<"=", "a", "b", "c">>,
      <<"f", "o", "o", ".", "b", "a", "r">> }

----------------------------------------------------------------------------
(* Initial values *)

ServerInit ==
    /\ pc = "recv"
    /\ inbox = 0
    /\ outstanding = 0
    /\ lastReply = <<>>
    /\ duration = 0
    /\ response = PyNone
    /\ exc = <<>>

SessionInit ==
    /\ now = 0
    /\ start_time = 0
    /\ next_measurement_time = 0
    /\ flow_data = <<>>
    /\ measurement_count = 0
    /\ result = <<>>
    /\ spin = 0

HistoryInit ==
    /\ exitPath = "none"
    /\ handlesOpen = 0
    /\ opens = 0
    /\ closes = 0
    /\ issued = {}
    /\ opAfterRelease = FALSE
    /\ stopCalls = 0
    /\ stopRets = <<>>
    /\ reachedLoop = FALSE
    /\ lastRead = "none"
    /\ readFailed = FALSE
    /\ probeRet = "none"
    /\ startRet = "none"

----------------------------------------------------------------------------
(* DriverSpec: a client holding one WaterCali object of either variant    *)
(* and calling its methods in any order, as main() of the driver files    *)
(* and test.py do                                                          *)

Variants == {"flow", "flowtemp"}

\* the call just made: its name, result, bus transactions, and the driver
\* before it
Called(name, r) ==
    LET c == [name |-> name, ok |-> r.ok, val |-> r.val, ops |-> r.ops,
              pre |-> drv]
        all == Append(calls, c)
    IN  /\ drv' = r.d
        /\ calls' = IF Len(all) > MaxCalls THEN Tail(all) ELSE all
        /\ UNCHANGED <<serverVars, sessionVars, historyVars, variant, fn,
                       arg, out>>

DInit ==
    /\ ServerInit
    /\ SessionInit
    /\ HistoryInit
    /\ variant \in Variants
    /\ drv \in {NewDriver(TRUE), NewDriver(FALSE)}
    /\ calls = <<>>
    /\ fn = "none"
    /\ arg = <<>>
    /\ out = <<>>

CallSoftReset ==
    /\ variant = "flow"
    /\ \E o \in Outcomes : Called("soft_reset", soft_reset(drv, o))

CallTestI2c ==
    \E o1, o2, o3, orst \in Outcomes :
        Called("test_i2c",
               IF variant = "flow" THEN test_i2c(drv, o1, o2, o3, orst)
               ELSE wc_test_i2c(drv, o1))

CallStartMeasure ==
    \E o \in Outcomes :
        Called("start_measure",
               IF variant = "flow" THEN start_measure(drv, o)
               ELSE wc_start_measure(drv, o))

CallStopMeasure ==
    \E o \in Outcomes :
        Called("stop_measure",
               IF variant = "flow" THEN stop_measure(drv, o)
               ELSE wc_stop_measure(drv, o))

CallReadFlow ==
    \E o \in Outcomes, w \in WireValues, t \in WireValues :
        Called("read_flow",
               IF variant = "flow" THEN read_flow(drv, o, FlowBlock(w))
               ELSE wc_read_flow(drv, o, FlowTempBlock(w, t)))

CallClose ==
    \E o \in Outcomes :
        Called("close",
               IF variant = "flow" THEN close(drv, o) ELSE wc_close(drv, o))

DNext ==
    \/ CallSoftReset
    \/ CallTestI2c
    \/ CallStartMeasure
    \/ CallStopMeasure
    \/ CallReadFlow
    \/ CallClose

DriverSpec == DInit /\ [][DNext]_vars

----------------------------------------------------------------------------
(* src/rpi-water-calibration-server.py: the measurement session *)

\* time between samples, 1.0 / sample_frequency seconds, in milliseconds
sample_interval == 1000 \div sample_frequency

\* the volume is a fraction over: 2 (average of two flows), 60 (seconds per
\* minute), 1000 (milliseconds per second), 500 (raw units per mL/min)
VolumeDen == 2 * 60 * 1000 * 500

\* 16-bit words the simulated device returns during a session:
\* 0, 30 mL/min and -0.5 mL/min
SessionWire == {0, 15000, 65286}

\* mutant: the integration taking the earlier flow of each pair instead of
\* the average of the two (rectangle rule)
RECURSIVE total_volume_ml_Rectangle(_)
total_volume_ml_Rectangle(fd) ==
    IF Len(fd) < 2 THEN 0
    ELSE LET n == Len(fd)
             dt == fd[n][1] - fd[n - 1][1]
         IN  total_volume_ml_Rectangle(SubSeq(fd, 1, n - 1))
             + 2 * fd[n - 1][2] * dt

\* mutant: an integration that counts reverse flow as no flow
RECURSIVE total_volume_ml_Clamped(_)
total_volume_ml_Clamped(fd) ==
    IF Len(fd) < 2 THEN 0
    ELSE LET n == Len(fd)
             dt == fd[n][1] - fd[n - 1][1]
             f1 == IF fd[n][2] < 0 THEN 0 ELSE fd[n][2]
             f0 == IF fd[n - 1][2] < 0 THEN 0 ELSE fd[n - 1][2]
         IN  total_volume_ml_Clamped(SubSeq(fd, 1, n - 1)) + (f1 + f0) * dt

\* lines 99-108: sum over adjacent pairs of avg_flow * dt_min, as the
\* numerator (f[i] + f[i-1]) * (t[i] - t[i-1])
RECURSIVE total_volume_ml(_)
total_volume_ml(fd) ==
    IF Len(fd) < 2 THEN 0
    ELSE LET n == Len(fd)
             dt == fd[n][1] - fd[n - 1][1]
             sum == fd[n][2] + fd[n - 1][2]
         IN  total_volume_ml(SubSeq(fd, 1, n - 1)) + sum * dt

\* the texts of the replies
ConnectionFailed == <<"error: ", "I2C connection failed">>
StartFailed == <<"error: ", "Failed to start measurement">>
InsufficientData == <<"error: ", "Insufficient data collected">>
InvalidFormat == <<"error: ", "Invalid measure command format">>
NotPositive == <<"error: ", "Duration must be positive">>
UnknownCommand == <<"error: ", "Unknown command">>
\* str(e) of the exceptions that occur
UnpackError == <<"too many values to unpack (expected 2)">>
PrintError == <<"[Errno 32] Broken pipe">>

\* mutant: handle_message that rejects negative durations only (< 0)
handle_message_ZeroAccepted(msg) ==
    LET m == strip(msg)
        d == parse_measure_command(m)
    IN  IF ~startswith(m, Keyword)
        THEN [session |-> FALSE, duration |-> 0,
              response |-> PyStr(UnknownCommand)]
        ELSE IF d = <<>>
        THEN [session |-> FALSE, duration |-> 0,
              response |-> PyStr(InvalidFormat)]
        ELSE IF d[1] < 0
        THEN [session |-> FALSE, duration |-> 0,
              response |-> PyStr(NotPositive)]
        ELSE [session |-> TRUE, duration |-> d[1], response |-> PyNone]

\* handle_message lines 135-144: whether the request starts a session, the
\* session's duration, and the error returned when it starts none
handle_message(msg) ==
    LET m == strip(msg)
        d == parse_measure_command(m)
    IN  IF ~startswith(m, Keyword)
        THEN [session |-> FALSE, duration |-> 0,
              response |-> PyStr(UnknownCommand)]
        ELSE IF d = <<>>
        THEN [session |-> FALSE, duration |-> 0,
              response |-> PyStr(InvalidFormat)]
        ELSE IF d[1] <= 0
        THEN [session |-> FALSE, duration |-> 0,
              response |-> PyStr(NotPositive)]
        ELSE [session |-> TRUE, duration |-> d[1], response |-> PyNone]

Count(ops, k) == Cardinality({i \in DOMAIN ops : ops[i] = k})

\* a transaction other than the release, issued on a released handle
AfterRelease(bus, ops) ==
    \E i \in DOMAIN ops :
        /\ ops[i] # "close"
        /\ \/ bus = "closed"
           \/ \E j \in 1..(i - 1) : ops[j] = "close"

\* the history of the bus after a driver call r made on driver d
Trace(d, r) ==
    /\ issued' = issued \cup {r.ops[i] : i \in DOMAIN r.ops}
    /\ closes' = closes + Count(r.ops, "close")
    /\ opAfterRelease' = (opAfterRelease \/ AfterRelease(d.bus, r.ops))
    /\ handlesOpen' = IF d.bus = "open" /\ r.d.bus = "closed"
                      THEN handlesOpen - 1 ELSE handlesOpen

\* a client sends a request; it waits in the socket until recv_string
\* returns it. The text of a waiting request has no effect before that, so
\* the queue is kept as a count and the text is drawn on receipt.
ClientSend ==
    /\ inbox < MaxQueue
    /\ inbox' = inbox + 1
    /\ UNCHANGED <<pc, outstanding, lastReply, duration, response, exc, drv,
                   sessionVars, historyVars, clientVars>>

\* start_server lines 177-181, handle_message lines 135-144 and, for a
\* valid command, the construction of the driver (line 53). An empty
\* socket (zmq.Again, lines 187-194) leaves the state as it is.
Receive ==
    /\ pc = "recv"
    /\ inbox > 0
    /\ \E msg \in Messages, opened \in BOOLEAN :
        LET h == handle_message(msg)
        IN  /\ inbox' = inbox - 1
            /\ outstanding' = outstanding + 1
            /\ lastReply' = <<>>
            /\ exc' = <<>>
            /\ duration' = h.duration
            /\ response' = h.response
            /\ IF h.session
               THEN /\ pc' = "probe"
                    /\ drv' = NewDriver(opened)
                    /\ opens' = IF opened THEN 1 ELSE 0
                    /\ handlesOpen' = IF opened THEN handlesOpen + 1
                                      ELSE handlesOpen
               ELSE /\ pc' = "send"
                    /\ drv' = drv
                    /\ opens' = 0
                    /\ handlesOpen' = handlesOpen
    /\ now' = 0
    /\ start_time' = 0
    /\ next_measurement_time' = 0
    /\ flow_data' = <<>>
    /\ measurement_count' = 0
    /\ result' = <<>>
    /\ spin' = 0
    /\ exitPath' = "none"
    /\ closes' = 0
    /\ issued' = {}
    /\ opAfterRelease' = FALSE
    /\ stopCalls' = 0
    /\ stopRets' = <<>>
    /\ reachedLoop' = FALSE
    /\ lastRead' = "none"
    /\ readFailed' = FALSE
    /\ probeRet' = "none"
    /\ startRet' = "none"
    /\ UNCHANGED clientVars

\* mutant: the probe's result is not checked (no return at line 58)
Probe_IgnoresFailure ==
    /\ pc = "probe"
    /\ \E o1, o2, o3, orst \in Outcomes :
        LET r == test_i2c(drv, o1, o2, o3, orst)
        IN  /\ drv' = r.d
            /\ Trace(drv, r)
            /\ probeRet' = IF r.ok THEN "ok" ELSE "fail"
    /\ pc' = "start"
    /\ UNCHANGED <<inbox, outstanding, lastReply, duration, response, exc,
                   sessionVars, exitPath, opens, stopCalls, stopRets,
                   reachedLoop, lastRead, readFailed, startRet, clientVars>>

\* lines 56-58: the probe
Probe ==
    /\ pc = "probe"
    /\ \E o1, o2, o3, orst \in Outcomes :
        LET r == test_i2c(drv, o1, o2, o3, orst)
        IN  /\ drv' = r.d
            /\ Trace(drv, r)
            /\ probeRet' = IF r.ok THEN "ok" ELSE "fail"
            /\ IF ~r.ok
               THEN /\ result' = <<FALSE, PyStr(ConnectionFailed), PyNone>>
                    /\ exitPath' = "probe"
                    /\ pc' = "finally"
               ELSE /\ result' = result
                    /\ exitPath' = exitPath
                    /\ pc' = "start"
    /\ UNCHANGED <<inbox, outstanding, lastReply, duration, response, exc,
                   now, start_time, next_measurement_time, flow_data,
                   measurement_count, spin, opens, stopCalls, stopRets,
                   reachedLoop, lastRead, readFailed, startRet, clientVars>>

\* mutant: the session going on to the loop after a failed start_measure
Start_IgnoresFailure ==
    /\ pc = "start"
    /\ \E o \in Outcomes :
        LET r == start_measure(drv, o)
        IN  /\ drv' = r.d
            /\ Trace(drv, r)
            /\ startRet' = IF r.ok THEN "ok" ELSE "fail"
    /\ pc' = "begin"
    /\ UNCHANGED <<inbox, outstanding, lastReply, duration, response, exc,
                   now, start_time, next_measurement_time, flow_data,
                   measurement_count, result, spin, exitPath, opens,
                   stopCalls, stopRets, reachedLoop, lastRead, readFailed,
                   probeRet, clientVars>>

\* lines 60-62: the start command
Start ==
    /\ pc = "start"
    /\ \E o \in Outcomes :
        LET r == start_measure(drv, o)
        IN  /\ drv' = r.d
            /\ Trace(drv, r)
            /\ startRet' = IF r.ok THEN "ok" ELSE "fail"
            /\ IF ~r.ok
               THEN /\ result' = <<FALSE, PyStr(StartFailed), PyNone>>
                    /\ exitPath' = "start"
                    /\ pc' = "finally"
               ELSE /\ result' = result
                    /\ exitPath' = exitPath
                    /\ pc' = "begin"
    /\ UNCHANGED <<inbox, outstanding, lastReply, duration, response, exc,
                   now, start_time, next_measurement_time, flow_data,
                   measurement_count, spin, opens, stopCalls, stopRets,
                   reachedLoop, lastRead, readFailed, probeRet, clientVars>>

\* lines 64-71: the loop's variables; print (line 71) may raise, which the
\* handler of lines 118-119 turns into a two-element result
BeginLoop ==
    /\ pc = "begin"
    /\ \E a \in 0..MaxStep, raised \in BOOLEAN :
        /\ now' = now + a
        /\ start_time' = now + a
        /\ next_measurement_time' = now + a
        /\ flow_data' = <<>>
        /\ measurement_count' = 0
        /\ IF raised
           THEN /\ result' = <<FALSE, PyStr(<<"error: ">> \o PrintError)>>
                /\ exitPath' = "exception"
                /\ pc' = "finally"
                /\ reachedLoop' = FALSE
           ELSE /\ result' = result
                /\ exitPath' = exitPath
                /\ pc' = "loop"
                /\ reachedLoop' = TRUE
    /\ UNCHANGED <<inbox, outstanding, lastReply, duration, response, exc,
                   drv, spin, handlesOpen, opens, closes, issued,
                   opAfterRelease, stopCalls, stopRets, lastRead, readFailed,
                   probeRet, startRet, clientVars>>

\* mutant: the next tick computed from the current time, not from the
\* previous tick
LoopIter_ScheduleFromNow ==
    /\ pc = "loop"
    /\ \E a, b \in 0..MaxStep, o \in Outcomes, w \in SessionWire :
        /\ (a + b = 0) => spin < MaxSpin
        /\ spin' = IF a + b = 0 THEN spin + 1 ELSE 0
        /\ IF (now + a) - start_time >= duration
           THEN /\ pc' = "stop"
                /\ now' = now + a
                /\ lastRead' = "none"
                /\ UNCHANGED <<drv, flow_data, measurement_count,
                               next_measurement_time, handlesOpen, closes,
                               issued, opAfterRelease, readFailed>>
           ELSE
             LET current_time == now + a + b
             IN  /\ pc' = "loop"
                 /\ now' = current_time
                 /\ IF current_time >= next_measurement_time
                    THEN
                      LET r == read_flow(drv, o, FlowBlock(w))
                          timestamp == current_time - start_time
                      IN  /\ drv' = r.d
                          /\ Trace(drv, r)
                          /\ lastRead' =
                               IF r.ops # <<>> /\ BusResult(drv, o) = "ok"
                               THEN "ok" ELSE "fail"
                          /\ readFailed' =
                               (readFailed \/ lastRead' = "fail")
                          /\ IF r.val # <<>>
                             THEN /\ flow_data' =
                                       Append(flow_data,
                                              <<timestamp, r.val[1]>>)
                                  /\ measurement_count' =
                                       measurement_count + 1
                                  /\ next_measurement_time' =
                                       current_time + sample_interval
                             ELSE UNCHANGED <<flow_data, measurement_count,
                                              next_measurement_time>>
                    ELSE /\ lastRead' = "none"
                         /\ UNCHANGED <<drv, flow_data, measurement_count,
                                        next_measurement_time, handlesOpen,
                                        closes, issued, opAfterRelease,
                                        readFailed>>
    /\ UNCHANGED <<inbox, outstanding, lastReply, duration, response, exc,
                   start_time, result, exitPath, opens, stopCalls, stopRets,
                   reachedLoop, probeRet, startRet, clientVars>>

\* mutant: the loop ends when enough samples were taken, not when the
\* duration has elapsed
LoopIter_UntilEnoughSamples ==
    /\ pc = "loop"
    /\ \E a, b \in 0..MaxStep, o \in Outcomes, w \in SessionWire :
        /\ (a + b = 0) => spin < MaxSpin
        /\ spin' = IF a + b = 0 THEN spin + 1 ELSE 0
        /\ IF measurement_count * sample_interval >= duration
           THEN /\ pc' = "stop"
                /\ now' = now + a
                /\ lastRead' = "none"
                /\ UNCHANGED <<drv, flow_data, measurement_count,
                               next_measurement_time, handlesOpen, closes,
                               issued, opAfterRelease, readFailed>>
           ELSE
             LET current_time == now + a + b
             IN  /\ pc' = "loop"
                 /\ now' = current_time
                 /\ IF current_time >= next_measurement_time
                    THEN
                      LET r == read_flow(drv, o, FlowBlock(w))
                          timestamp == current_time - start_time
                      IN  /\ drv' = r.d
                          /\ Trace(drv, r)
                          /\ lastRead' =
                               IF r.ops # <<>> /\ BusResult(drv, o) = "ok"
                               THEN "ok" ELSE "fail"
                          /\ readFailed' =
                               (readFailed \/ lastRead' = "fail")
                          /\ IF r.val # <<>>
                             THEN /\ flow_data' =
                                       Append(flow_data,
                                              <<timestamp, r.val[1]>>)
                                  /\ measurement_count' =
                                       measurement_count + 1
                                  /\ next_measurement_time' =
                                       next_measurement_time
                                       + sample_interval
                             ELSE UNCHANGED <<flow_data, measurement_count,
                                              next_measurement_time>>
                    ELSE /\ lastRead' = "none"
                         /\ UNCHANGED <<drv, flow_data, measurement_count,
                                        next_measurement_time, handlesOpen,
                                        closes, issued, opAfterRelease,
                                        readFailed>>
    /\ UNCHANGED <<inbox, outstanding, lastReply, duration, response, exc,
                   start_time, result, exitPath, opens, stopCalls, stopRets,
                   reachedLoop, probeRet, startRet, clientVars>>

\* lines 73-90: one iteration of the sampling loop. a is the time that
\* passed before the loop condition reads the clock, b the time between
\* that reading and current_time = time.time()
LoopIter ==
    /\ pc = "loop"
    /\ \E a, b \in 0..MaxStep, o \in Outcomes, w \in SessionWire :
        /\ (a + b = 0) => spin < MaxSpin
        /\ spin' = IF a + b = 0 THEN spin + 1 ELSE 0
        /\ IF (now + a) - start_time >= duration
           THEN /\ pc' = "stop"
                /\ now' = now + a
                /\ lastRead' = "none"
                /\ UNCHANGED <<drv, flow_data, measurement_count,
                               next_measurement_time, handlesOpen, closes,
                               issued, opAfterRelease, readFailed>>
           ELSE
             LET current_time == now + a + b
             IN  /\ pc' = "loop"
                 /\ now' = current_time
                 /\ IF current_time >= next_measurement_time
                    THEN
                      LET r == read_flow(drv, o, FlowBlock(w))
                          timestamp == current_time - start_time
                      IN  /\ drv' = r.d
                          /\ Trace(drv, r)
                          /\ lastRead' =
                               IF r.ops # <<>> /\ BusResult(drv, o) = "ok"
                               THEN "ok" ELSE "fail"
                          /\ readFailed' =
                               (readFailed \/ lastRead' = "fail")
                          /\ IF r.val # <<>>
                             THEN /\ flow_data' =
                                       Append(flow_data,
                                              <<timestamp, r.val[1]>>)
                                  /\ measurement_count' =
                                       measurement_count + 1
                                  /\ next_measurement_time' =
                                       next_measurement_time
                                       + sample_interval
                             ELSE UNCHANGED <<flow_data, measurement_count,
                                              next_measurement_time>>
                    ELSE /\ lastRead' = "none"
                         /\ UNCHANGED <<drv, flow_data, measurement_count,
                                        next_measurement_time, handlesOpen,
                                        closes, issued, opAfterRelease,
                                        readFailed>>
    /\ UNCHANGED <<inbox, outstanding, lastReply, duration, response, exc,
                   start_time, result, exitPath, opens, stopCalls, stopRets,
                   reachedLoop, probeRet, startRet, clientVars>>

\* lines 92-116: the stop command, the check of the buffer, the integration.
\* The global vol_queue (line 111) is assigned and never read: it decides
\* nothing and is left out of the state.
StopAndIntegrate ==
    /\ pc = "stop"
    /\ \E o \in Outcomes :
        LET r == stop_measure(drv, o)
        IN  /\ drv' = r.d
            /\ Trace(drv, r)
            /\ stopCalls' = stopCalls + 1
            /\ stopRets' = Append(stopRets, r.ok)
    /\ IF Len(flow_data) < 2
       THEN /\ result' = <<FALSE, PyStr(InsufficientData), PyNone>>
            /\ exitPath' = "insufficient"
       ELSE /\ result' = <<TRUE, PyFloat(total_volume_ml(flow_data))>>
            /\ exitPath' = "success"
    /\ pc' = "finally"
    /\ UNCHANGED <<inbox, outstanding, lastReply, duration, response, exc,
                   now, start_time, next_measurement_time, flow_data,
                   measurement_count, spin, opens, reachedLoop, lastRead,
                   readFailed, probeRet, startRet, clientVars>>

\* lines 120-121: water_cali.close() on every way out of the try block;
\* the function then returns and its local variables are gone
Finally ==
    /\ pc = "finally"
    /\ \E o \in Outcomes :
        LET r == close(drv, o)
            stops == Count(r.ops, "w_stop")
        IN  /\ drv' = r.d
            /\ Trace(drv, r)
            /\ stopCalls' = stopCalls + stops
            /\ stopRets' = IF stops > 0
                           THEN Append(stopRets, ~r.d.measuring)
                           ELSE stopRets
    /\ pc' = "returned"
    /\ now' = 0
    /\ start_time' = 0
    /\ next_measurement_time' = 0
    /\ flow_data' = <<>>
    /\ measurement_count' = 0
    /\ spin' = 0
    /\ UNCHANGED <<inbox, outstanding, lastReply, duration, response, exc,
                   result, exitPath, opens, reachedLoop, lastRead,
                   readFailed, probeRet, startRet, clientVars>>

\* handle_message lines 147-152: success, volume = <the result>; a result
\* of three elements raises ValueError, which start_server catches
HandleReturn ==
    /\ pc = "returned"
    /\ IF Len(result) = 2
       THEN /\ response' = result[2]
            /\ exc' = exc
            /\ pc' = "send"
       ELSE /\ response' = response
            /\ exc' = UnpackError
            /\ pc' = "except"
    /\ UNCHANGED <<inbox, outstanding, lastReply, duration, drv,
                   sessionVars, historyVars, clientVars>>

\* start_server lines 182-185: send_string(str(response))
SendReply ==
    /\ pc = "send"
    /\ lastReply' = str(response)
    /\ outstanding' = outstanding - 1
    /\ pc' = "recv"
    /\ UNCHANGED <<inbox, duration, response, exc, drv, sessionVars,
                   historyVars, clientVars>>

\* mutant: the handler of lines 195-200 logs the exception and sends nothing
SendError_Swallowed ==
    /\ pc = "except"
    /\ pc' = "recv"
    /\ UNCHANGED <<inbox, outstanding, lastReply, duration, response, exc,
                   drv, sessionVars, historyVars, clientVars>>

\* start_server lines 195-200: send_string(f"error: {str(e)}")
SendError ==
    /\ pc = "except"
    /\ lastReply' = <<"error: ">> \o exc
    /\ outstanding' = outstanding - 1
    /\ pc' = "recv"
    /\ UNCHANGED <<inbox, duration, response, exc, drv, sessionVars,
                   historyVars, clientVars>>

\* the server before the first request: no driver object exists yet
Init ==
    /\ ServerInit
    /\ SessionInit
    /\ HistoryInit
    /\ drv = NewDriver(FALSE)
    /\ variant = "flow"
    /\ calls = <<>>
    /\ fn = "none"
    /\ arg = <<>>
    /\ out = <<>>

Next ==
    \/ ClientSend
    \/ Receive
    \/ Probe
    \/ Start
    \/ BeginLoop
    \/ LoopIter
    \/ StopAndIntegrate
    \/ Finally
    \/ HandleReturn
    \/ SendReply
    \/ SendError

Spec == Init /\ [][Next]_vars

\* lines 47-121: perform_water_measurement is sequential code, so as long as
\* every bus operation returns (with a value or with an exception) its next
\* statement is executed; the clock advances because LoopIter admits at most
\* MaxSpin consecutive iterations that read the same time
SessionStep ==
    \/ Probe
    \/ Start
    \/ BeginLoop
    \/ LoopIter
    \/ StopAndIntegrate
    \/ Finally

LiveSpec == Init /\ [][Next]_vars /\ WF_vars(SessionStep)

----------------------------------------------------------------------------
(* FunctionSpec: one function of the program applied once to one input *)

\* the values of a byte of a block read from the bus
Bytes == 0..255

FInit ==
    /\ ServerInit
    /\ SessionInit
    /\ HistoryInit
    /\ variant \in Variants
    /\ drv = NewDriver(TRUE)
    /\ calls = <<>>
    /\ fn = "none"
    /\ arg = <<>>
    /\ out = <<>>

\* start_measure() then read_flow() on an acknowledging device, as main()
\* does; b0, b1 are the bytes of the flow word, and the temperature word of
\* the 9-byte block takes them in the other order
ApplyReadFlow ==
    /\ fn = "none"
    /\ \E b0, b1 \in Bytes :
        LET block == IF variant = "flow" THEN <<b0, b1, 0>>
                     ELSE <<b0, b1, 0, b1, b0, 0, 0, 0, 0>>
            st == IF variant = "flow" THEN start_measure(drv, "ok")
                  ELSE wc_start_measure(drv, "ok")
            r == IF variant = "flow" THEN read_flow(st.d, "ok", block)
                 ELSE wc_read_flow(st.d, "ok", block)
        IN  /\ fn' = "read_flow"
            /\ arg' = block
            /\ out' = r.val
            /\ drv' = r.d
    /\ UNCHANGED <<serverVars, sessionVars, historyVars, variant, calls>>

\* the flows a session can buffer: 0, 30 mL/min and -0.5 mL/min
SessionFlows == {flow_raw(FlowBlock(w)) : w \in SessionWire}

\* sample buffers of 2..MaxSamples elements in time order
Buffers ==
    UNION { { fd \in [1..n -> (0..MaxTime) \X SessionFlows] :
                \A i \in 1..(n - 1) : fd[i][1] <= fd[i + 1][1] }
            : n \in 2..MaxSamples }

\* lines 99-108 applied to a buffer that passed the check of line 96
ApplyIntegrate ==
    /\ fn = "none"
    /\ \E fd \in Buffers :
        /\ fn' = "integrate"
        /\ arg' = fd
        /\ out' = <<total_volume_ml(fd)>>
    /\ UNCHANGED <<serverVars, sessionVars, historyVars, drv, variant,
                   calls>>

\* characters the requests of FunctionSpec put after the '='
TailChars == {"2", "5", ".", "x", " ", "-"}

\* the requests of the server and 'water.measure=' / 'water.measure = '
\* followed by up to MaxTail characters
Requests ==
    Messages \cup
    UNION { { Keyword \o sep \o tail : tail \in [1..n -> TailChars] }
            : sep \in {<<"=">>, <<" ", "=", " ">>}, n \in 0..MaxTail }

\* handle_message lines 135-144 applied to a request
ApplyHandleMessage ==
    /\ fn = "none"
    /\ \E msg \in Requests :
        /\ fn' = "handle_message"
        /\ arg' = msg
        /\ out' = <<handle_message(msg)>>
    /\ UNCHANGED <<serverVars, sessionVars, historyVars, drv, variant,
                   calls>>

\* test.py line 34: next_measurement_time += 0.002, in milliseconds
capture_interval == 2

\* test.py line 26, 'if result:' for a result that is None or a float:
\* None and 0.0 are false
truthy(value) == value # <<>> /\ value[1] # 0

\* test.py lines 20-38: one iteration of the capture loop, entered with the
\* loop's variables v and the clock at current_time; d is the driver, o and
\* data the outcome and the block of the bus read
capture_iteration(v, current_time, d, o, data) ==
    IF current_time >= v.next_measurement_time
    THEN LET r == read_flow(d, o, data)
             timestamp_ms == current_time - v.start_time
         IN  IF truthy(r.val)
             THEN [data_buffer |->
                       Append(v.data_buffer, <<timestamp_ms, r.val[1]>>),
                   measurement_count |-> v.measurement_count + 1,
                   next_measurement_time |->
                       v.next_measurement_time + capture_interval,
                   start_time |-> v.start_time,
                   read |-> TRUE, result |-> r.val, slept |-> FALSE]
             ELSE [v EXCEPT !.read = TRUE, !.result = r.val,
                            !.slept = FALSE]
    ELSE [v EXCEPT !.read = FALSE, !.result = <<>>, !.slept = TRUE]

\* the loop's variables after k rows were captured on schedule
CaptureVars(k) ==
    [data_buffer |-> [i \in 1..k |-> <<(i - 1) * capture_interval, 15000>>],
     measurement_count |-> k,
     next_measurement_time |-> k * capture_interval,
     start_time |-> 0,
     read |-> FALSE, result |-> <<>>, slept |-> FALSE]

\* test.py lines 11-38: after start_measure() succeeded, one iteration of
\* the capture loop with k rows in the buffer; test.py imports the driver
\* of I2C_SLF3S_1300F.py
ApplyCaptureIteration ==
    /\ fn = "none"
    /\ variant = "flow"
    /\ \E k \in 0..1, current_time \in 0..MaxTime, o \in Outcomes,
          w \in WireValues :
        LET st == start_measure(drv, "ok")
            v == CaptureVars(k)
        IN  /\ fn' = "capture"
            /\ arg' = [v |-> v, current_time |-> current_time,
                       outcome |-> o, word |-> w]
            /\ out' = <<capture_iteration(v, current_time, st.d, o,
                                          FlowBlock(w))>>
            /\ drv' = read_flow(st.d, o, FlowBlock(w)).d
    /\ UNCHANGED <<serverVars, sessionVars, historyVars, variant, calls>>

FNext ==
    \/ ApplyReadFlow
    \/ ApplyIntegrate
    \/ ApplyHandleMessage
    \/ ApplyCaptureIteration

FunctionSpec == FInit /\ [][FNext]_vars

----------------------------------------------------------------------------
(* Properties *)

\* perform_water_measurement has executed a return statement and its
\* finally block
SessionOver ==
    exitPath # "none" /\ pc \in {"returned", "send", "except", "recv"}

\* the positions inside perform_water_measurement
SessionPcs == {"probe", "start", "begin", "loop", "stop", "finally"}

C2_ReleasedExactlyOnce ==
    /\ closes <= opens
    /\ ~opAfterRelease
    /\ (SessionOver /\ opens = 1) => (closes = 1 /\ drv.bus = "closed")

\* a session that ended with an exception raised inside the try block
C2_Witness ==
    SessionOver /\ opens = 1 /\ closes = 1 /\ exitPath = "exception"

\* C3 as stated: a session that reaches the sampling loop invokes
\* stop_measure exactly once, cleanup included.
C3_StopExactlyOnce ==
    (SessionOver /\ reachedLoop) => stopCalls = 1

\* C3 amended: a session that reaches the sampling loop invokes stop_measure
\* once when the stop command of line 93 succeeds, and a second time, from
\* close(), when it fails; read failures in the loop do not change this.
C3_StopOnceOrRetriedByClose ==
    /\ stopCalls <= 2
    /\ Len(stopRets) = stopCalls
    /\ (SessionOver /\ reachedLoop) =>
          /\ stopCalls >= 1
          /\ stopCalls = IF stopRets[1] THEN 1 ELSE 2

\* a session with a failed read in the loop and a single stop_measure
C3_Witness ==
    SessionOver /\ reachedLoop /\ readFailed /\ stopCalls = 1

\* C4 as stated: when a session has ended, the driver's measuring flag is
\* False.
C4_IdleAfterSession ==
    SessionOver => ~drv.measuring

\* C5: in the sampling loop a failed read_flow adds nothing to flow_data and
\* the loop goes on; every element added comes from a successful read and
\* holds the value read; the loop is left only when the duration elapsed.
C5_FailedReadSkipped ==
    [][ pc = "loop" =>
          /\ lastRead' = "fail" => (flow_data' = flow_data /\ pc' = "loop")
          /\ flow_data' # flow_data =>
                /\ lastRead' = "ok"
                /\ Len(flow_data') = Len(flow_data) + 1
                /\ SubSeq(flow_data', 1, Len(flow_data)) = flow_data
                /\ flow_data'[Len(flow_data')][2] \in
                     {flow_raw(FlowBlock(w)) : w \in SessionWire}
          /\ pc' # "loop" =>
                (pc' = "stop" /\ now' - start_time >= duration) ]_vars

\* a session in which a read failed and which still returned a volume
C5_Witness ==
    /\ pc = "finally"
    /\ readFailed
    /\ exitPath = "success"
    /\ Len(flow_data) >= 2

\* C6: after a failed probe no start command and no sample read is issued
\* and the session returns ConnectionFailed; after a failed start_measure no
\* sample read is issued and the session returns StartFailed.
C6_FailFast ==
    /\ probeRet = "fail" =>
          /\ "w_start" \notin issued
          /\ "r_data" \notin issued
          /\ startRet = "none"
          /\ pc \in {"finally", "returned", "except", "send", "recv"}
          /\ result = <<FALSE, PyStr(ConnectionFailed), PyNone>>
    /\ startRet = "fail" =>
          /\ "r_data" \notin issued
          /\ ~reachedLoop
          /\ pc \in {"finally", "returned", "except", "send", "recv"}
          /\ result = <<FALSE, PyStr(StartFailed), PyNone>>

\* the probe succeeded, the start command failed, the session returned
C6_Witness ==
    /\ pc = "returned"
    /\ probeRet = "ok"
    /\ startRet = "fail"
    /\ "w_start" \in issued

\* C7: at the end of the loop a buffer of 0 or 1 samples gives
\* InsufficientData and no volume; a buffer of exactly 2 samples gives the
\* single trapezoid (f1 + f2) / 2 * (t2 - t1) / 60; samples (0 s, 10) and
\* (60 s, 10) give 10.0 (1200 over the denominator 2 * 60).
C7_InsufficientOrTrapezoid ==
    /\ total_volume_ml(<<<<0, 10>>, <<60, 10>>>>) = 10 * (2 * 60)
    /\ (pc = "finally" /\ reachedLoop) =>
          IF Len(flow_data) < 2
          THEN result = <<FALSE, PyStr(InsufficientData), PyNone>>
          ELSE /\ Len(result) = 2
               /\ result[1] = TRUE
               /\ result[2].type = "float"
               /\ Len(flow_data) = 2 =>
                    result[2].n =
                        (flow_data[1][2] + flow_data[2][2])
                        * (flow_data[2][1] - flow_data[1][1])

\* a session of exactly two samples with different flows returned a volume
C7_Witness ==
    /\ pc = "finally"
    /\ reachedLoop
    /\ Len(flow_data) = 2
    /\ flow_data[1][2] # flow_data[2][2]
    /\ flow_data[1][2] # 0
    /\ Len(result) = 2
    /\ result[1] = TRUE

\* C8 as stated: the reply to a request whose session failed names the
\* cause: ConnectionFailed, StartFailed or InsufficientData.
C8_TypedCauseInReply ==
    /\ (pc = "recv" /\ exitPath = "probe") => lastReply = ConnectionFailed
    /\ (pc = "recv" /\ exitPath = "start") => lastReply = StartFailed
    /\ (pc = "recv" /\ exitPath = "insufficient") =>
          lastReply = InsufficientData

\* C9: every request received is answered by exactly one reply before the
\* next one is received, also when handle_message raises; the reply is the
\* volume as text when the session succeeded and begins with "error: "
\* otherwise; the server is back at recv_string after the reply.
C9_OneReplyPerRequest ==
    /\ outstanding \in {0, 1}
    /\ pc = "recv" <=> outstanding = 0
    /\ (pc = "recv" /\ (exitPath # "none" \/ response # PyNone)) =>
          lastReply # <<>>
    /\ (pc = "recv" /\ lastReply # <<>>) =>
          IF exitPath = "success"
          THEN lastReply = <<ToString(result[2].n)>>
          ELSE Head(lastReply) = "error: "

\* a request whose handling raised was answered with the exception's text
C9_Witness ==
    pc = "recv" /\ lastReply = <<"error: ">> \o UnpackError

\* C10 (DriverSpec): a successful start_measure followed immediately by a
\* second start_measure: the second returns success too, issues no bus
\* transaction, and the driver is measuring.
C10_StartIdempotent ==
    \A i \in 1..(Len(calls) - 1) :
        (/\ calls[i].name = "start_measure"
         /\ calls[i].ok
         /\ calls[i + 1].name = "start_measure") =>
            /\ calls[i + 1].ok
            /\ calls[i + 1].ops = <<>>
            /\ calls[i + 1].pre.measuring
            /\ (i + 1 = Len(calls) => drv.measuring)

\* both variants: a start command written from Idle, then a second call
C10_Witness ==
    /\ Len(calls) = 2
    /\ calls[1].name = "start_measure"
    /\ calls[1].ops = <<"w_start">>
    /\ calls[1].ok
    /\ calls[2].name = "start_measure"
    /\ calls[2].ok
    /\ variant = "flowtemp"

\* the most recent call of DriverSpec; drv is the driver after it
LastCall == calls[Len(calls)]

\* C11 as stated: stop_measure called in state Idle returns success, issues
\* no bus write and leaves the state Idle, whatever the state of the bus
\* (a bus that could not be opened included).
C11_StopIdleSucceeds ==
    (/\ Len(calls) > 0
     /\ LastCall.name = "stop_measure"
     /\ ~LastCall.pre.measuring) =>
        /\ LastCall.ok
        /\ LastCall.ops = <<>>
        /\ ~drv.measuring

\* C11 amended: stop_measure called in state Idle issues no bus write and
\* leaves the driver as it was; it returns success when the bus was opened
\* (open or already released) and failure when the bus could not be opened.
C11_StopIdleNoOp ==
    (/\ Len(calls) > 0
     /\ LastCall.name = "stop_measure"
     /\ ~LastCall.pre.measuring) =>
        /\ LastCall.ops = <<>>
        /\ drv = LastCall.pre
        /\ LastCall.ok <=> LastCall.pre.bus # "None"

\* stop_measure called in Idle on an open bus, after a start and a stop
C11_Witness ==
    /\ Len(calls) = 2
    /\ calls[1].name = "stop_measure"
    /\ calls[1].ops = <<"w_stop">>
    /\ calls[1].ok
    /\ calls[2].name = "stop_measure"
    /\ calls[2].ok
    /\ calls[2].pre.bus = "open"

\* C12: read_flow called in state Idle returns None, issues no bus read and
\* leaves the driver as it was, whatever the state of the bus (not opened,
\* open, released).
C12_ReadIdleFails ==
    (/\ Len(calls) > 0
     /\ LastCall.name = "read_flow"
     /\ ~LastCall.pre.measuring) =>
        /\ ~LastCall.ok
        /\ LastCall.val = <<>>
        /\ LastCall.ops = <<>>
        /\ drv = LastCall.pre

\* read_flow called in Idle on an open bus, right after a successful stop
C12_Witness ==
    /\ Len(calls) = 2
    /\ calls[1].name = "stop_measure"
    /\ calls[1].ops = <<"w_stop">>
    /\ calls[1].ok
    /\ calls[2].name = "read_flow"
    /\ calls[2].pre.bus = "open"
    /\ ~calls[2].pre.measuring

\* the bus transaction k is among those of call c
InOps(c, k) == \E i \in DOMAIN c.ops : c.ops[i] = k

\* C13 as stated: the measuring flag changes only through start_measure
\* (Idle to Measuring), stop_measure (Measuring to Idle, close() included)
\* or a soft reset, and after every reset command the device acknowledged
\* the flag is Idle: soft_reset, the recovery step of the flow-only probe,
\* and the reset command the flow+temperature probe sends.
C13_ResetForcesIdle ==
    /\ (Len(calls) > 0 /\ drv.measuring # LastCall.pre.measuring) =>
          IF drv.measuring
          THEN LastCall.name = "start_measure" /\ InOps(LastCall, "w_start")
          ELSE InOps(LastCall, "w_stop") \/ InOps(LastCall, "w_reset")
    /\ (/\ Len(calls) > 0
        /\ LastCall.name = "soft_reset"
        /\ LastCall.ok) => ~drv.measuring
    /\ variant = "flow" =>
          \A o1, o2, o3, orst \in Outcomes :
              LET r == test_i2c(drv, o1, o2, o3, orst)
              IN  (InOps(r, "w_reset") /\ BusResult(drv, orst) = "ok") =>
                      ~r.d.measuring
    /\ (/\ Len(calls) > 0
        /\ variant = "flowtemp"
        /\ LastCall.name = "test_i2c"
        /\ InOps(LastCall, "w_reset")
        /\ LastCall.ok) => ~drv.measuring

\* the first fault among the probe's three transactions, "ok" if none
ProbeFault(d, o1, o2, o3) ==
    IF BusResult(d, o1) # "ok" THEN BusResult(d, o1)
    ELSE IF BusResult(d, o2) # "ok" THEN BusResult(d, o2)
    ELSE BusResult(d, o3)

\* C14 (flow-only driver): for every driver state and every outcome of the
\* bus transactions, test_i2c issues the reset command exactly once when
\* its first fault is errno 121, as its last transaction, after at most one
\* of each identifier transaction, and returns False; on any other fault,
\* on success and without a bus it issues no reset command.
C14_OneResetOnNack ==
    variant = "flow" =>
        \A o1, o2, o3, orst \in Outcomes :
            LET r == test_i2c(drv, o1, o2, o3, orst)
                nack == /\ drv.bus # "None"
                        /\ ProbeFault(drv, o1, o2, o3) = "nack"
            IN  /\ Count(r.ops, "w_reset") = IF nack THEN 1 ELSE 0
                /\ Count(r.ops, "w_id1") <= 1
                /\ Count(r.ops, "w_id2") <= 1
                /\ Count(r.ops, "r_id") <= 1
                /\ nack => (~r.ok /\ r.ops[Len(r.ops)] = "w_reset")
                /\ r.ok <=> (drv.bus # "None"
                             /\ ProbeFault(drv, o1, o2, o3) = "ok")

\* a probe whose second identifier write was not acknowledged
C14_Witness ==
    /\ Len(calls) > 0
    /\ variant = "flow"
    /\ LastCall.name = "test_i2c"
    /\ LastCall.ops = <<"w_id1", "w_id2", "w_reset">>
    /\ ~LastCall.ok
    /\ LastCall.pre.measuring
    /\ ~drv.measuring

\* C15 as stated: close() in state Measuring issues the stop command before
\* it releases the bus, always returns normally, and a second close() after
\* a first issues no command on the released bus.
C15_CloseSafe ==
    (Len(calls) > 0 /\ LastCall.name = "close") =>
        /\ LastCall.ok
        /\ (LastCall.pre.measuring /\ LastCall.pre.bus = "open") =>
              LastCall.ops = <<"w_stop", "close">>
        /\ (Len(calls) = 2 /\ calls[1].name = "close") =>
              \A i \in DOMAIN LastCall.ops : LastCall.ops[i] = "close"

\* the signed value of the 16-bit word v, as the claim states it
Signed16(v) == IF v >= 32768 THEN v - 65536 ELSE v

\* C16 (FunctionSpec): for every pair of wire bytes (b0, b1), the raw flow
\* value read_flow decodes is the signed value of b0 * 256 + b1, in
\* [-32768, 32767]; so is the raw temperature value of the 9-byte variant,
\* decoded from bytes 3 and 4 of the block.
C16_SignedDecode ==
    fn = "read_flow" =>
        /\ Len(out) = 1
        /\ LET flow == IF variant = "flow" THEN out[1] ELSE out[1][1]
           IN  /\ flow = Signed16(arg[1] * 256 + arg[2])
               /\ flow \in -32768..32767
        /\ variant = "flowtemp" =>
              /\ out[1][2] = Signed16(arg[4] * 256 + arg[5])
              /\ out[1][2] \in -32768..32767

\* the word 0x8000 decoded as -32768 by the flow-only driver
C16_Witness ==
    /\ fn = "read_flow"
    /\ variant = "flow"
    /\ arg = <<128, 0, 0>>
    /\ out = <<-32768>>

\* C17 as stated: a session of duration D whose reads all return the same
\* flow f returns the volume f * D / 60, the volume of the whole requested
\* duration (numerator 2 * f * D over VolumeDen), whether or not reads
\* failed in the loop.
C17_ConstantFlowVolume ==
    (/\ pc = "finally"
     /\ exitPath = "success"
     /\ \A i \in DOMAIN flow_data : flow_data[i][2] = flow_data[1][2]) =>
        result[2].n = 2 * flow_data[1][2] * duration

\* the sum over the adjacent pairs i, i+1 .. n-1, n of the buffer fd of
\* (f0 + f1) * (t1 - t0), the numerator of ((f0+f1)/2) * ((t1-t0)/60)
RECURSIVE PairSum(_, _)
PairSum(fd, i) ==
    IF i >= Len(fd) THEN 0
    ELSE (fd[i][2] + fd[i + 1][2]) * (fd[i + 1][1] - fd[i][1])
         + PairSum(fd, i + 1)

\* C18 (FunctionSpec): for every buffer of n >= 2 samples in time order the
\* integration returns the sum over adjacent pairs of
\* ((f0+f1)/2) * ((t1-t0)/60); for a constant flow f that is f times the
\* buffer's time span, whatever n and the spacing; negative flows count
\* negatively.
C18_TrapezoidSum ==
    fn = "integrate" =>
        LET n == Len(arg)
            v == out[1]
        IN  /\ v = PairSum(arg, 1)
            /\ (\A i \in 1..n : arg[i][2] = arg[1][2]) =>
                  v = 2 * arg[1][2] * (arg[n][1] - arg[1][1])
            /\ (\A i \in 1..n : arg[i][2] < 0) =>
                  (v <= 0 /\ (arg[n][1] > arg[1][1] => v < 0))

\* three unevenly spaced samples of the reverse flow -0.5 mL/min
C18_Witness ==
    /\ fn = "integrate"
    /\ arg = <<<<0, -250>>, <<1, -250>>, <<3, -250>>>>
    /\ out = <<-1500>>

\* the whole message, surrounding whitespace aside, is 'water.measure',
\* '=', and a decimal number \d+ or \d+.\d+ with nothing after it
WellFormed(msg) ==
    LET m == strip(msg)
        eq == SkipSpace(m, Len(Keyword) + 1)
        d0 == SkipSpace(m, eq + 1)
        d1 == SkipDigits(m, d0)
        f1 == SkipDigits(m, d1 + 1)
    IN  /\ startswith(m, Keyword)
        /\ eq <= Len(m)
        /\ m[eq] = "="
        /\ d1 > d0
        /\ \/ d1 = Len(m) + 1
           \/ /\ m[d1] = "."
              /\ f1 > d1 + 1
              /\ f1 = Len(m) + 1

\* C19 as stated (FunctionSpec): a request starts a session only if the
\* whole message has the form 'water.measure = <duration>', and then with
\* that duration ('water.measure = 2.5' gives 2.5 s); every other message,
\* a valid command followed by extra characters included, gets an error
\* reply and starts no session.
C19_OnlyWholeCommand ==
    fn = "handle_message" =>
        /\ out[1].session => WellFormed(arg)
        /\ arg = Keyword \o <<" ", "=", " ", "2", ".", "5">> =>
              (out[1].session /\ out[1].duration = 2500)
        /\ ~WellFormed(arg) =>
              /\ ~out[1].session
              /\ out[1].response.type = "str"
              /\ Head(out[1].response.s) = "error: "

\* the bus transactions of the identifier probe
ProbeOps == {"w_id1", "w_id2", "r_id"}

\* C20: within one session the bus operations come in the order probe,
\* start command, sample reads, stop command, release: nothing precedes the
\* probe, the start command follows a successful probe, every read_flow of
\* the loop follows a successful start and precedes the stop command and
\* the release, and the function returns only after the stop (if the loop
\* was reached) and the release.
C20_SessionOrder ==
    /\ [](/\ pc = "probe" => issued = {}
          /\ pc = "start" => issued \subseteq ProbeOps
          /\ "w_start" \in issued => probeRet = "ok"
          /\ "r_data" \in issued => (startRet = "ok" /\ reachedLoop)
          /\ pc \in {"probe", "start", "begin", "loop"} =>
                ("w_stop" \notin issued /\ closes = 0)
          /\ "w_stop" \in issued => "w_start" \in issued
          /\ (pc \in {"returned", "send", "except"} /\ exitPath # "none") =>
                /\ closes = opens
                /\ reachedLoop => "w_stop" \in issued
          /\ ~opAfterRelease)
    /\ [][ lastRead' \in {"ok", "fail"} =>
              /\ pc = "loop"
              /\ pc' = "loop"
              /\ startRet = "ok"
              /\ drv.measuring
              /\ "w_stop" \notin issued'
              /\ closes' = 0 ]_vars

\* a successful session that issued every kind of transaction
C20_Witness ==
    /\ pc = "returned"
    /\ exitPath = "success"
    /\ ProbeOps \cup {"w_start", "r_data", "w_stop"} \subseteq issued
    /\ closes = 1
    /\ readFailed

\* a step of the sampling loop: every iteration moves the clock or counts
\* one more iteration within the same clock unit
LoopStep == pc = "loop" /\ <<now, spin>>' # <<now, spin>>

\* C21: in the sampling loop next_measurement_time is the session start
\* plus sample_interval times the number of samples appended so far; it
\* changes only together with an append, by exactly sample_interval, and
\* is never set from the current time; a read is attempted only when the
\* current time has reached next_measurement_time.
C21_DriftCorrecting ==
    /\ [](pc \in {"loop", "stop"} =>
             /\ measurement_count = Len(flow_data)
             /\ next_measurement_time =
                    start_time + Len(flow_data) * sample_interval)
    /\ [][ pc = "loop" =>
              /\ next_measurement_time' # next_measurement_time =>
                    /\ Len(flow_data') = Len(flow_data) + 1
                    /\ next_measurement_time' =
                           next_measurement_time + sample_interval
              /\ Len(flow_data') = Len(flow_data) + 1 =>
                    /\ next_measurement_time' =
                           next_measurement_time + sample_interval
                    /\ flow_data'[Len(flow_data')][1] = now' - start_time
              /\ (LoopStep /\ lastRead' \in {"ok", "fail"}) =>
                    now' >= next_measurement_time ]_vars

\* a sample appended later than its tick: the clock is past the schedule
C21_Witness ==
    /\ pc = "loop"
    /\ Len(flow_data) = 2
    /\ flow_data[2][1] > sample_interval
    /\ next_measurement_time = start_time + 2 * sample_interval
    /\ now > start_time + sample_interval

\* C22 as stated: a read_flow that fails at a due tick skips the tick (the
\* schedule moves on by sample_interval, so the next attempt is for the
\* following tick), and of two read attempts in consecutive iterations the
\* first appended a sample (otherwise the loop yielded in between).
C22_FailedTickSkipped ==
    [][ LoopStep =>
          /\ lastRead' = "fail" =>
                next_measurement_time' =
                    next_measurement_time + sample_interval
          /\ (lastRead \in {"ok", "fail"} /\ lastRead' \in {"ok", "fail"}) =>
                lastRead = "ok" ]_vars


\* C23: every session terminates when the clock advances and every bus
\* operation returns: the loop is left once the duration has elapsed (the
\* clock read by the last iteration that stayed in the loop was still below
\* it), and a session in progress leads to the function having returned a
\* result with the bus released, also when reads failed.
C23_SessionTerminates ==
    /\ [](pc = "loop" => now - start_time < duration + MaxStep)
    /\ (pc = "loop") ~> (pc = "stop" /\ now - start_time >= duration)
    /\ (pc \in SessionPcs) ~>
           (pc = "returned" /\ drv.bus # "open" /\ Len(result) \in {2, 3})

\* a session that sampled for its whole duration with a failed read and
\* has returned with the bus released
C23_Witness ==
    /\ pc = "returned"
    /\ reachedLoop
    /\ readFailed
    /\ Len(result) = 3
    /\ opens = 1
    /\ drv.bus = "closed"


\* start_measure / stop_measure of the driver variant under test
StartOf(d, o) ==
    IF variant = "flow" THEN start_measure(d, o) ELSE wc_start_measure(d, o)

StopOf(d, o) ==
    IF variant = "flow" THEN stop_measure(d, o) ELSE wc_stop_measure(d, o)

\* C24: a start_measure or stop_measure whose bus write fails returns
\* failure and leaves the driver as it was: the measuring flag changes only
\* in a call that wrote its command and returned success. Stated of the last
\* call made and of the call that every reachable driver would make next
\* with a write that fails.
C24_FailedWriteChangesNothing ==
    /\ (Len(calls) > 0 /\ LastCall.name \in {"start_measure", "stop_measure"})
         => /\ ~LastCall.ok => drv = LastCall.pre
            /\ drv.measuring # LastCall.pre.measuring =>
                 /\ LastCall.ok
                 /\ LastCall.ops =
                      IF LastCall.name = "start_measure"
                      THEN <<"w_start">> ELSE <<"w_stop">>
                 /\ drv.measuring = (LastCall.name = "start_measure")
    /\ \A o \in Outcomes :
         (drv.bus # "None" /\ BusResult(drv, o) # "ok") =>
            /\ ~drv.measuring =>
                 StartOf(drv, o) = Ret(drv, FALSE, <<>>, <<"w_start">>)
            /\ drv.measuring =>
                 StopOf(drv, o) = Ret(drv, FALSE, <<>>, <<"w_stop">>)

\* a start whose write succeeded and set the flag, then a stop whose write
\* failed on the open bus and left the driver Measuring
C24_Witness ==
    /\ Len(calls) = 2
    /\ calls[1].name = "start_measure"
    /\ calls[1].ops = <<"w_start">>
    /\ calls[1].ok
    /\ ~calls[1].pre.measuring
    /\ calls[2].pre.bus = "open"
    /\ calls[2].name = "stop_measure"
    /\ calls[2].ops = <<"w_stop">>
    /\ ~calls[2].ok
    /\ calls[2].pre.measuring
    /\ drv.measuring


\* the two error replies of C25
RejectTexts == {NotPositive, UnknownCommand}

\* C25: handle_message answers a well-formed measure command whose duration
\* is 0, and every command that does not begin with the keyword, with an
\* error and starts no session: no driver is constructed (the driver object
\* and the count of open handles stay as they were) and no bus transaction
\* is issued before the error is sent; a session never runs with a duration
\* that is not positive.
C25_RejectedWithoutDriver ==
    /\ [](\A msg \in Messages :
            /\ parse_measure_command(strip(msg)) = <<0>> =>
                 handle_message(msg) =
                    [session |-> FALSE, duration |-> 0,
                     response |-> PyStr(NotPositive)]
            /\ ~startswith(strip(msg), Keyword) =>
                 handle_message(msg) =
                    [session |-> FALSE, duration |-> 0,
                     response |-> PyStr(UnknownCommand)])
    /\ [](pc \in SessionPcs => duration > 0)
    /\ []((\/ pc = "send" /\ response \in {PyStr(t) : t \in RejectTexts}
           \/ pc = "recv" /\ lastReply \in RejectTexts) =>
             /\ opens = 0
             /\ issued = {}
             /\ closes = 0
             /\ exitPath = "none"
             /\ ~reachedLoop)
    /\ [][ (pc = "recv" /\ pc' = "send") =>
             /\ response'.type = "str"
             /\ drv' = drv
             /\ handlesOpen' = handlesOpen ]_vars
    /\ [][ (pc = "send" /\ pc' = "recv"
            /\ response \in {PyStr(t) : t \in RejectTexts}) =>
             lastReply' = response.s ]_vars

\* "Duration must be positive" has been sent, after an earlier session that
\* did open and release the bus, and nothing was opened for this request
C25_Witness ==
    /\ pc = "recv"
    /\ lastReply = NotPositive
    /\ drv.bus = "closed"
    /\ opens = 0
    /\ issued = {}


\* C26 as stated: in the capture loop of test.py every successful read_flow
\* at a due tick (a result that is not None, a flow of zero included)
\* appends one row [timestamp_ms, flow] to the buffer, counts it and moves
\* the next measurement time on by one interval.
C26_EverySuccessfulReadCaptured ==
    (/\ fn = "capture"
     /\ arg.current_time >= arg.v.next_measurement_time
     /\ out[1].result # <<>>) =>
        /\ out[1].data_buffer =
              Append(arg.v.data_buffer,
                     <<arg.current_time - arg.v.start_time,
                       out[1].result[1]>>)
        /\ out[1].measurement_count = arg.v.measurement_count + 1
        /\ out[1].next_measurement_time =
              arg.v.next_measurement_time + capture_interval

=============================================================================
